---- MODULE Spec2Model ----
(***************************************************************************)
(* Model of espeakup's queue.c: the command queue shared by the producer   *)
(* threads (queue_add), the stop requesters (stop_runner) and the runner   *)
(* thread (espeak_thread / queue_process_entry).                           *)
(*                                                                         *)
(* Each thread is a program counter over the source lines of queue.c; one  *)
(* action is one step between two points where another thread can          *)
(* interleave (a mutex operation, a condition-variable operation, an       *)
(* engine call, or a critical section run under queue_guard).              *)
(*                                                                         *)
(* pthread semantics: a mutex is its owner (or NOBODY); pthread_cond_wait  *)
(* releases the mutex and blocks in one step and re-acquires the mutex     *)
(* after it has been woken; pthread_cond_signal with no waiter is lost     *)
(* and otherwise unblocks at least one waiter.  pthread_cond_wait may      *)
(* also return without any signal (a spurious wake-up): the waits of lines *)
(* 146 and 201 each have a step for it, which no fairness condition        *)
(* forces.                                                                 *)
(***************************************************************************)
EXTENDS Integers, Sequences, FiniteSets, TLC

\* ---- bounds of the model ----
MaxEntries == 2
MaxStopCalls == 2

\* ---- threads ----
Runner == "runner"
Producers == {"p1", "p2"}
\* the producer of the single-producer specifications
OneProducer == {"p1"}
StopCallers == {"s1", "s2"}
Threads == {Runner} \cup Producers \cup StopCallers
NOBODY == "nobody"

\* ---- entries and commands ----
NULL == 0
Entries == 1..MaxEntries
CMD_NONE == "CMD_NONE"
CMD_SET_FREQUENCY == "CMD_SET_FREQUENCY"
CMD_SET_PITCH == "CMD_SET_PITCH"
CMD_SET_PUNCTUATION == "CMD_SET_PUNCTUATION"
CMD_SET_RATE == "CMD_SET_RATE"
CMD_SET_VOICE == "CMD_SET_VOICE"
CMD_SET_VOLUME == "CMD_SET_VOLUME"
CMD_SPEAK_TEXT == "CMD_SPEAK_TEXT"
\* the commands the producers of the model submit
Cmds == {CMD_SET_VOICE, CMD_SPEAK_TEXT}
\* the commands of the switch that make an engine call
EngineCmds == {CMD_SET_FREQUENCY, CMD_SET_PITCH, CMD_SET_PUNCTUATION,
               CMD_SET_RATE, CMD_SET_VOLUME, CMD_SPEAK_TEXT}

\* ---- espeak_ERROR ----
EE_OK == 0
EE_INTERNAL_ERROR == -1
ErrorValues == {EE_OK, EE_INTERNAL_ERROR}
\* the local variable error outside the lifetime of queue_process_entry
NO_ERROR_VAR == 99

\* ---- results of the initialisation calls ----
InitRates == {-1, 22050}
AudioResults == {-1, 0}
GoodRates == {22050}
GoodAudio == {0}

VARIABLES
    pc,               \* position of every thread
    queue_guard,      \* owner of the mutex queue_guard
    stop_guard,       \* owner of the mutex stop_guard
    runner_must_stop, \* the flag
    should_run,       \* the extern flag of espeakup.h
    first,            \* tail pointer (newest entry)
    last,             \* head pointer (oldest entry)
    next,             \* entry -> next field
    cmd,              \* entry -> cmd field
    freed,            \* entries released by free_entry
    current,          \* local of queue_process_entry
    error,            \* local of queue_process_entry
    arg,              \* producer -> the entry it passes to queue_add
    added,            \* history: entries in the order queue_add linked them
    nentries,         \* history: number of entries created so far
    nstops,           \* history: number of stop_runner calls begun so far
    snapLen,          \* history: stop caller -> Len(added) when its call began
    served,           \* history: stop caller -> runner steps done since it set the flag
    stopSteps,        \* history: steps of the runner's current/last stop handling
    startedWhileStop, \* history: dispatch engine calls begun since the flag was set
    refreed,          \* entries passed to free_entry when already released
    discarded,        \* history: entries released by the queue_clear of a stop
    initFailed,       \* history: espeak_Initialize or init_audio failed
    addedWhileStop    \* history: entries linked while runner_must_stop was set

vars == <<pc, queue_guard, stop_guard, runner_must_stop, should_run, first,
          last, next, cmd, freed, current, error, arg, added, nentries,
          nstops, snapLen, served, stopSteps, startedWhileStop, refreed,
          discarded, initFailed, addedWhileStop>>

queueVars == <<first, last, next, freed, refreed>>
histVars == <<added, snapLen, served, stopSteps, startedWhileStop>>
fateVars == <<discarded, initFailed, addedWhileStop>>

\* ---- the queue as a record, and the queue functions as operators ----
TheQueue == [first |-> first, last |-> last, next |-> next, freed |-> freed,
             refreed |-> refreed]

SetQueue(q) ==
    /\ first' = q.first
    /\ last' = q.last
    /\ next' = q.next
    /\ freed' = q.freed
    /\ refreed' = q.refreed

\* queue_add with the test of line 49 left out: last always moves
queue_add_NoHeadTest(q, entry) ==
    LET n1 == [q.next EXCEPT ![entry] = NULL]
    IN  IF q.first = NULL
        THEN [q EXCEPT !.next = n1, !.last = entry, !.first = entry]
        ELSE [q EXCEPT !.next = [n1 EXCEPT ![q.first] = entry],
                       !.last = entry, !.first = entry]

\* queue_add with the link of line 54 left out
queue_add_NoLink(q, entry) ==
    LET n1 == [q.next EXCEPT ![entry] = NULL]
        l1 == IF q.last = NULL THEN entry ELSE q.last
    IN  [q EXCEPT !.next = n1, !.last = l1, !.first = entry]

\* queue.c 48-56
queue_add(q, entry) ==
    LET n1 == [q.next EXCEPT ![entry] = NULL]
        l1 == IF q.last = NULL THEN entry ELSE q.last
    IN  IF q.first = NULL
        THEN [q EXCEPT !.next = n1, !.last = l1, !.first = entry]
        ELSE [q EXCEPT !.next = [n1 EXCEPT ![q.first] = entry],
                       !.last = l1, !.first = entry]

\* queue.c 61-66
free_entry(q, entry) ==
    [q EXCEPT !.freed = q.freed \cup {entry},
              !.refreed = IF entry \in q.freed
                          THEN q.refreed \cup {entry} ELSE q.refreed]

\* queue.c 71-82
queue_remove(q) ==
    IF q.last # NULL
    THEN LET temp == q.last
             l1 == q.next[temp]
             q1 == [q EXCEPT !.last = l1,
                             !.first = IF l1 = NULL THEN l1 ELSE q.first]
         IN  free_entry(q1, temp)
    ELSE q

\* queue.c 84-93
RECURSIVE queue_clear(_)
queue_clear(q) ==
    IF q.last # NULL THEN queue_clear(queue_remove(q)) ELSE q

\* the entries reachable from the head, in order
RECURSIVE Chain(_, _, _)
Chain(nx, e, fuel) ==
    IF e = NULL \/ fuel = 0 THEN <<>> ELSE <<e>> \o Chain(nx, nx[e], fuel - 1)
QueueSeq == Chain(next, last, MaxEntries)
Range(s) == {s[i] : i \in 1..Len(s)}
QueueSet == Range(QueueSeq)

\* ---- pthread primitives ----
Goto(self, l) == pc' = [pc EXCEPT ![self] = l]

\* pthread_cond_signal(&runner_awake): the runner is the only waiter
SignalRunnerAwake(self, l) ==
    pc' = [t \in Threads |->
             IF t = self THEN l
             ELSE IF t = Runner /\ pc[t] = "L201_wait" THEN "L201_woken"
             ELSE pc[t]]

AckWaiters == {s \in StopCallers : pc[s] = "L146_wait"}

\* pthread_cond_signal(&stop_acknowledged): unblocks at least one waiter
SignalStopAcknowledged(self, l) ==
    IF AckWaiters = {}
    THEN Goto(self, l)
    ELSE \E W \in (SUBSET AckWaiters) \ {{}} :
            pc' = [t \in Threads |->
                     IF t = self THEN l
                     ELSE IF t \in W THEN "L146_woken"
                     ELSE pc[t]]

\* ---- initial state: after the static initialisers of queue.c 35-42 ----
Init ==
    /\ pc = [t \in Threads |-> IF t = Runner THEN "L177" ELSE "idle"]
    /\ queue_guard = NOBODY
    /\ stop_guard = NOBODY
    /\ runner_must_stop = 0
    /\ should_run = 1
    /\ first = NULL
    /\ last = NULL
    /\ next = [e \in Entries |-> NULL]
    /\ cmd = [e \in Entries |-> CMD_NONE]
    /\ freed = {}
    /\ current = NULL
    /\ error = NO_ERROR_VAR
    /\ arg = [p \in Producers |-> NULL]
    /\ added = <<>>
    /\ nentries = 0
    /\ nstops = 0
    /\ snapLen = [s \in StopCallers |-> 0]
    /\ served = [s \in StopCallers |-> {}]
    /\ stopSteps = <<>>
    /\ startedWhileStop = 0
    /\ refreed = {}
    /\ discarded = {}
    /\ initFailed = FALSE
    /\ addedWhileStop = {}

\* ---- producer: a caller creates an entry and calls queue_add ----
Producer_Call(p) ==
    /\ pc[p] = "idle"
    /\ nentries < MaxEntries
    /\ \E c \in Cmds :
          cmd' = [cmd EXCEPT ![nentries + 1] = c]
    /\ nentries' = nentries + 1
    /\ arg' = [arg EXCEPT ![p] = nentries + 1]
    /\ Goto(p, "L46")
    /\ UNCHANGED <<queue_guard, stop_guard, runner_must_stop, should_run,
                   queueVars, current, error, nstops, histVars, fateVars>>

\* queue.c 46
queue_add_L46(p) ==
    /\ pc[p] = "L46"
    /\ queue_guard = NOBODY
    /\ queue_guard' = p
    /\ Goto(p, "L48")
    /\ UNCHANGED <<stop_guard, runner_must_stop, should_run, queueVars, cmd,
                   current, error, arg, nentries, nstops, histVars, fateVars>>

\* queue.c 47-57
queue_add_L48(p) ==
    /\ pc[p] = "L48"
    /\ queue_guard = p
    /\ SetQueue(queue_add(TheQueue, arg[p]))
    /\ added' = Append(added, arg[p])
    /\ queue_guard' = NOBODY
    /\ Goto(p, "L58")
    /\ UNCHANGED <<stop_guard, runner_must_stop, should_run, cmd, current,
                   error, arg, nentries, nstops, snapLen, served, stopSteps,
                   startedWhileStop, discarded, initFailed>>
    /\ addedWhileStop' = IF runner_must_stop # 0
                        THEN addedWhileStop \cup {arg[p]}
                        ELSE addedWhileStop

\* queue.c 58
queue_add_L58(p) ==
    /\ pc[p] = "L58"
    /\ SignalRunnerAwake(p, "idle")
    /\ arg' = [arg EXCEPT ![p] = NULL]
    /\ UNCHANGED <<queue_guard, stop_guard, runner_must_stop, should_run,
                   queueVars, cmd, current, error, nentries, nstops, histVars, fateVars>>

\* ---- stop requester: stop_runner ----
StopRunner_Call(s) ==
    /\ pc[s] \in {"idle", "returned"}
    /\ nstops < MaxStopCalls
    /\ nstops' = nstops + 1
    /\ snapLen' = [snapLen EXCEPT ![s] = Len(added)]
    /\ served' = [served EXCEPT ![s] = {}]
    /\ Goto(s, "L141")
    /\ UNCHANGED <<queue_guard, stop_guard, runner_must_stop, should_run,
                   queueVars, cmd, current, error, arg, nentries, added,
                   stopSteps, startedWhileStop, fateVars>>

\* queue.c 141
stop_runner_L141(s) ==
    /\ pc[s] = "L141"
    /\ stop_guard = NOBODY
    /\ stop_guard' = s
    /\ Goto(s, "L142")
    /\ UNCHANGED <<queue_guard, runner_must_stop, should_run, queueVars, cmd,
                   current, error, arg, nentries, nstops, histVars, fateVars>>

\* queue.c 142
stop_runner_L142(s) ==
    /\ pc[s] = "L142"
    /\ queue_guard = NOBODY
    /\ queue_guard' = s
    /\ Goto(s, "L143")
    /\ UNCHANGED <<stop_guard, runner_must_stop, should_run, queueVars, cmd,
                   current, error, arg, nentries, nstops, histVars, fateVars>>

\* queue.c 143-144
stop_runner_L143(s) ==
    /\ pc[s] = "L143"
    /\ queue_guard = s
    /\ runner_must_stop' = 1
    /\ queue_guard' = NOBODY
    /\ served' = [served EXCEPT ![s] = {}]
    /\ startedWhileStop' = IF runner_must_stop = 0 THEN 0 ELSE startedWhileStop
    /\ Goto(s, "L145")
    /\ UNCHANGED <<stop_guard, should_run, queueVars, cmd, current, error,
                   arg, nentries, nstops, added, snapLen, stopSteps, fateVars>>

\* queue.c 145
stop_runner_L145(s) ==
    /\ pc[s] = "L145"
    /\ SignalRunnerAwake(s, "L146")
    /\ UNCHANGED <<queue_guard, stop_guard, runner_must_stop, should_run,
                   queueVars, cmd, current, error, arg, nentries, nstops,
                   histVars, fateVars>>

\* queue.c 146: pthread_cond_wait releases stop_guard and blocks
stop_runner_L146(s) ==
    /\ pc[s] = "L146"
    /\ stop_guard = s
    /\ stop_guard' = NOBODY
    /\ Goto(s, "L146_wait")
    /\ UNCHANGED <<queue_guard, runner_must_stop, should_run, queueVars, cmd,
                   current, error, arg, nentries, nstops, histVars, fateVars>>

\* queue.c 146: pthread_cond_wait stops blocking although stop_acknowledged
\* was not signalled; line 146 is not inside a loop that tests a predicate
stop_runner_L146_spurious(s) ==
    /\ pc[s] = "L146_wait"
    /\ Goto(s, "L146_woken")
    /\ UNCHANGED <<queue_guard, stop_guard, runner_must_stop, should_run,
                   queueVars, cmd, current, error, arg, nentries, nstops,
                   histVars, fateVars>>

\* queue.c 146: the woken waiter re-acquires stop_guard and returns
stop_runner_L146_woken(s) ==
    /\ pc[s] = "L146_woken"
    /\ stop_guard = NOBODY
    /\ stop_guard' = s
    /\ Goto(s, "L147")
    /\ UNCHANGED <<queue_guard, runner_must_stop, should_run, queueVars, cmd,
                   current, error, arg, nentries, nstops, histVars, fateVars>>

\* queue.c 147-148
stop_runner_L147(s) ==
    /\ pc[s] = "L147"
    /\ stop_guard = s
    /\ stop_guard' = NOBODY
    /\ Goto(s, "returned")
    /\ UNCHANGED <<queue_guard, runner_must_stop, should_run, queueVars, cmd,
                   current, error, arg, nentries, nstops, histVars, fateVars>>

\* ---- the runner: espeak_thread and queue_process_entry ----
\* espeak_thread without the should_run = 0 of line 180
espeak_thread_L177_NoShutdown(rates) ==
    /\ pc[Runner] = "L177"
    /\ \E rate \in rates : initFailed' = (initFailed \/ rate < 0)
    /\ Goto(Runner, "L183")
    /\ UNCHANGED <<queue_guard, stop_guard, runner_must_stop, should_run,
                   queueVars, cmd, current, error, arg, nentries, nstops,
                   histVars, discarded, addedWhileStop>>

\* queue.c 176-181: espeak_Initialize
espeak_thread_L177(rates) ==
    /\ pc[Runner] = "L177"
    /\ \E rate \in rates :
          /\ should_run' = IF rate < 0 THEN 0 ELSE should_run
          /\ initFailed' = (initFailed \/ rate < 0)
    /\ Goto(Runner, "L183")
    /\ UNCHANGED <<queue_guard, stop_guard, runner_must_stop, queueVars, cmd,
                   current, error, arg, nentries, nstops, histVars, discarded, addedWhileStop>>

\* queue.c 183-185: init_audio
espeak_thread_L183(results) ==
    /\ pc[Runner] = "L183"
    /\ \E r \in results :
          /\ should_run' = IF r < 0 THEN 0 ELSE should_run
          /\ initFailed' = (initFailed \/ r < 0)
    /\ Goto(Runner, "L188")
    /\ UNCHANGED <<queue_guard, stop_guard, runner_must_stop, queueVars, cmd,
                   current, error, arg, nentries, nstops, histVars, discarded, addedWhileStop>>

\* queue.c 188-197: the default voice parameters, set directly on the engine
espeak_thread_L188 ==
    /\ pc[Runner] = "L188"
    /\ Goto(Runner, "L199")
    /\ UNCHANGED <<queue_guard, stop_guard, runner_must_stop, should_run,
                   queueVars, cmd, current, error, arg, nentries, nstops,
                   histVars, fateVars>>

\* queue.c 199
espeak_thread_L199 ==
    /\ pc[Runner] = "L199"
    /\ queue_guard = NOBODY
    /\ queue_guard' = Runner
    /\ Goto(Runner, "L200")
    /\ UNCHANGED <<stop_guard, runner_must_stop, should_run, queueVars, cmd,
                   current, error, arg, nentries, nstops, histVars, fateVars>>

\* queue.c 200-201: the loop test, then pthread_cond_wait releases
\* queue_guard and blocks; 218 when the loop ends
espeak_thread_L200 ==
    /\ pc[Runner] = "L200"
    /\ queue_guard = Runner
    /\ IF should_run # 0
       THEN /\ queue_guard' = NOBODY
            /\ Goto(Runner, "L201_wait")
       ELSE /\ queue_guard' = queue_guard
            /\ Goto(Runner, "L218")
    /\ UNCHANGED <<stop_guard, runner_must_stop, should_run, queueVars, cmd,
                   current, error, arg, nentries, nstops, histVars, fateVars>>

\* queue.c 201: pthread_cond_wait stops blocking although runner_awake was
\* not signalled
espeak_thread_L201_spurious ==
    /\ pc[Runner] = "L201_wait"
    /\ Goto(Runner, "L201_woken")
    /\ UNCHANGED <<queue_guard, stop_guard, runner_must_stop, should_run,
                   queueVars, cmd, current, error, arg, nentries, nstops,
                   histVars, fateVars>>

\* queue.c 201: the woken runner re-acquires queue_guard
espeak_thread_L201_woken ==
    /\ pc[Runner] = "L201_woken"
    /\ queue_guard = NOBODY
    /\ queue_guard' = Runner
    /\ Goto(Runner, "L203")
    /\ UNCHANGED <<stop_guard, runner_must_stop, should_run, queueVars, cmd,
                   current, error, arg, nentries, nstops, histVars, fateVars>>

\* the inner loop condition without the test of runner_must_stop
InnerLoopCond_NoStopTest == should_run # 0 /\ last # NULL

\* queue.c 203: the condition of the inner loop
InnerLoopCond == should_run # 0 /\ last # NULL /\ runner_must_stop = 0

\* queue.c 203-204
espeak_thread_L203 ==
    /\ pc[Runner] = "L203"
    /\ queue_guard = Runner
    /\ IF InnerLoopCond THEN Goto(Runner, "L98") ELSE Goto(Runner, "L208")
    /\ UNCHANGED <<queue_guard, stop_guard, runner_must_stop, should_run,
                   queueVars, cmd, current, error, arg, nentries, nstops,
                   histVars, fateVars>>

\* queue_process_entry without the unlock of line 100
queue_process_entry_L98_NoUnlock ==
    /\ pc[Runner] = "L98"
    /\ queue_guard = Runner
    /\ current' = last
    /\ IF last # NULL
       THEN Goto(Runner, "L102")
       ELSE Goto(Runner, "L205")
    /\ UNCHANGED <<queue_guard, stop_guard, runner_must_stop, should_run,
                   queueVars, cmd, error, arg, nentries, nstops, histVars, fateVars>>

\* queue.c 98-101: take the head, release queue_guard
queue_process_entry_L98 ==
    /\ pc[Runner] = "L98"
    /\ queue_guard = Runner
    /\ current' = last
    /\ queue_guard' = NOBODY
    /\ IF last # NULL
       THEN Goto(Runner, "L102")
       ELSE Goto(Runner, "L205")
    /\ UNCHANGED <<stop_guard, runner_must_stop, should_run, queueVars, cmd,
                   error, arg, nentries, nstops, histVars, fateVars>>

\* queue_process_entry with the lock of line 129 taken before the switch
queue_process_entry_L102_LockFirst ==
    /\ pc[Runner] = "L102"
    /\ queue_guard = NOBODY
    /\ queue_guard' = Runner
    /\ IF cmd[current] \in EngineCmds
       THEN /\ Goto(Runner, "L102_call")
            /\ error' = error
       ELSE /\ Goto(Runner, "L130")
            /\ \E e \in ErrorValues : error' = e
    /\ UNCHANGED <<stop_guard, runner_must_stop, should_run, queueVars, cmd,
                   current, arg, nentries, nstops, histVars, fateVars>>

\* queue.c 102-127: the switch; an engine call begins, or (CMD_SET_VOICE,
\* default) no call is made and error keeps its indeterminate value
queue_process_entry_L102 ==
    /\ pc[Runner] = "L102"
    /\ IF cmd[current] \in EngineCmds
       THEN /\ Goto(Runner, "L102_call")
            /\ error' = error
            /\ startedWhileStop' =
                  IF runner_must_stop # 0
                  THEN startedWhileStop + 1 ELSE startedWhileStop
       ELSE /\ Goto(Runner, "L129")
            /\ \E e \in ErrorValues : error' = e
            /\ startedWhileStop' = startedWhileStop
    /\ UNCHANGED <<queue_guard, stop_guard, runner_must_stop, should_run,
                   queueVars, cmd, current, arg, nentries, nstops, added,
                   snapLen, served, stopSteps, fateVars>>

\* queue.c 104-123: the engine call returns its espeak_ERROR
queue_process_entry_L102_call ==
    /\ pc[Runner] = "L102_call"
    /\ \E e \in ErrorValues : error' = e
    /\ Goto(Runner, "L129")
    /\ UNCHANGED <<queue_guard, stop_guard, runner_must_stop, should_run,
                   queueVars, cmd, current, arg, nentries, nstops, histVars, fateVars>>

\* queue_process_entry without the lock of line 129
queue_process_entry_L129_NoLock ==
    /\ pc[Runner] = "L129"
    /\ Goto(Runner, "L130")
    /\ UNCHANGED <<queue_guard, stop_guard, runner_must_stop, should_run,
                   queueVars, cmd, current, error, arg, nentries, nstops,
                   histVars, fateVars>>

\* queue.c 129
queue_process_entry_L129 ==
    /\ pc[Runner] = "L129"
    /\ queue_guard = NOBODY
    /\ queue_guard' = Runner
    /\ Goto(Runner, "L130")
    /\ UNCHANGED <<stop_guard, runner_must_stop, should_run, queueVars, cmd,
                   current, error, arg, nentries, nstops, histVars, fateVars>>

\* queue_process_entry releasing the entry it dispatched without unlinking it
queue_process_entry_L130_FreeOnly ==
    /\ pc[Runner] = "L130"
    /\ queue_guard = Runner
    /\ IF error = EE_OK
       THEN SetQueue(free_entry(TheQueue, current))
       ELSE UNCHANGED queueVars
    /\ queue_guard' = NOBODY
    /\ Goto(Runner, "L205")
    /\ UNCHANGED <<stop_guard, runner_must_stop, should_run, cmd, current,
                   error, arg, nentries, nstops, histVars, fateVars>>

\* queue_process_entry without the test of line 130
queue_process_entry_L130_NoTest ==
    /\ pc[Runner] = "L130"
    /\ queue_guard = Runner
    /\ SetQueue(queue_remove(TheQueue))
    /\ queue_guard' = NOBODY
    /\ Goto(Runner, "L205")
    /\ UNCHANGED <<stop_guard, runner_must_stop, should_run, cmd, current,
                   error, arg, nentries, nstops, histVars, fateVars>>

\* queue.c 130-134
queue_process_entry_L130 ==
    /\ pc[Runner] = "L130"
    /\ queue_guard = Runner
    /\ IF error = EE_OK
       THEN SetQueue(queue_remove(TheQueue))
       ELSE UNCHANGED queueVars
    /\ queue_guard' = NOBODY
    /\ Goto(Runner, "L205")
    /\ UNCHANGED <<stop_guard, runner_must_stop, should_run, cmd, current,
                   error, arg, nentries, nstops, histVars, fateVars>>

\* queue.c 134, 205: queue_process_entry has returned (its locals are gone)
espeak_thread_L205 ==
    /\ pc[Runner] = "L205"
    /\ queue_guard = NOBODY
    /\ queue_guard' = Runner
    /\ current' = NULL
    /\ error' = NO_ERROR_VAR
    /\ Goto(Runner, "L203")
    /\ UNCHANGED <<stop_guard, runner_must_stop, should_run, queueVars, cmd,
                   arg, nentries, nstops, histVars, fateVars>>

\* the test of line 208 leading to the reset of line 212 without the stop
\* handling of lines 209-211
espeak_thread_L208_NoClear ==
    /\ pc[Runner] = "L208"
    /\ queue_guard = Runner
    /\ IF runner_must_stop # 0
       THEN Goto(Runner, "L212")
       ELSE Goto(Runner, "L200")
    /\ UNCHANGED <<queue_guard, stop_guard, runner_must_stop, should_run,
                   queueVars, cmd, current, error, arg, nentries, nstops,
                   histVars, fateVars>>

\* queue.c 208
espeak_thread_L208 ==
    /\ pc[Runner] = "L208"
    /\ queue_guard = Runner
    /\ IF runner_must_stop # 0
       THEN Goto(Runner, "L209")
       ELSE Goto(Runner, "L200")
    /\ UNCHANGED <<queue_guard, stop_guard, runner_must_stop, should_run,
                   queueVars, cmd, current, error, arg, nentries, nstops,
                   histVars, fateVars>>

\* the stop callers whose request is outstanding: they have set the flag
\* and have not returned
Requesting == {s \in StopCallers :
                 pc[s] \in {"L145", "L146", "L146_wait", "L146_woken", "L147"}}

Serve(step) ==
    served' = [s \in StopCallers |->
                 IF s \in Requesting THEN served[s] \cup {step} ELSE served[s]]

\* queue.c 209
espeak_thread_L209 ==
    /\ pc[Runner] = "L209"
    /\ stop_guard = NOBODY
    /\ stop_guard' = Runner
    /\ stopSteps' = <<>>
    /\ Goto(Runner, "L210")
    /\ UNCHANGED <<queue_guard, runner_must_stop, should_run, queueVars, cmd,
                   current, error, arg, nentries, nstops, added, snapLen,
                   served, startedWhileStop, fateVars>>

\* the stop handling without the stop_speech call of line 211
espeak_thread_L210_NoAbort ==
    /\ pc[Runner] = "L210"
    /\ SetQueue(queue_clear(TheQueue))
    /\ stopSteps' = Append(stopSteps, "queue_clear")
    /\ Serve("queue_clear")
    /\ Goto(Runner, "L212")
    /\ UNCHANGED <<queue_guard, stop_guard, runner_must_stop, should_run,
                   cmd, current, error, arg, nentries, nstops, added, snapLen,
                   startedWhileStop, initFailed, addedWhileStop>>
    /\ discarded' = discarded \cup QueueSet

\* queue.c 210
espeak_thread_L210 ==
    /\ pc[Runner] = "L210"
    /\ SetQueue(queue_clear(TheQueue))
    /\ stopSteps' = Append(stopSteps, "queue_clear")
    /\ Serve("queue_clear")
    /\ Goto(Runner, "L211")
    /\ UNCHANGED <<queue_guard, stop_guard, runner_must_stop, should_run,
                   cmd, current, error, arg, nentries, nstops, added, snapLen,
                   startedWhileStop, initFailed, addedWhileStop>>
    /\ discarded' = discarded \cup QueueSet

\* queue.c 211: the call of stop_speech begins
espeak_thread_L211 ==
    /\ pc[Runner] = "L211"
    /\ stopSteps' = Append(stopSteps, "stop_speech")
    /\ Serve("stop_speech")
    /\ Goto(Runner, "L211_call")
    /\ UNCHANGED <<queue_guard, stop_guard, runner_must_stop, should_run,
                   queueVars, cmd, current, error, arg, nentries, nstops,
                   added, snapLen, startedWhileStop, fateVars>>

\* queue.c 211: stop_speech returns
espeak_thread_L211_call ==
    /\ pc[Runner] = "L211_call"
    /\ Goto(Runner, "L212")
    /\ UNCHANGED <<queue_guard, stop_guard, runner_must_stop, should_run,
                   queueVars, cmd, current, error, arg, nentries, nstops,
                   histVars, fateVars>>

\* queue.c 212
espeak_thread_L212 ==
    /\ pc[Runner] = "L212"
    /\ runner_must_stop' = 0
    /\ stopSteps' = Append(stopSteps, "reset")
    /\ Serve("reset")
    /\ startedWhileStop' = 0
    /\ Goto(Runner, "L213")
    /\ UNCHANGED <<queue_guard, stop_guard, should_run, queueVars, cmd,
                   current, error, arg, nentries, nstops, added, snapLen, fateVars>>

\* queue.c 213
espeak_thread_L213 ==
    /\ pc[Runner] = "L213"
    /\ stop_guard = Runner
    /\ stop_guard' = NOBODY
    /\ Goto(Runner, "L214")
    /\ UNCHANGED <<queue_guard, runner_must_stop, should_run, queueVars, cmd,
                   current, error, arg, nentries, nstops, histVars, fateVars>>

\* queue.c 214
espeak_thread_L214 ==
    /\ pc[Runner] = "L214"
    /\ SignalStopAcknowledged(Runner, "L200")
    /\ stopSteps' = Append(stopSteps, "signal")
    /\ UNCHANGED <<queue_guard, stop_guard, runner_must_stop, should_run,
                   queueVars, cmd, current, error, arg, nentries, nstops,
                   added, snapLen, served, startedWhileStop, fateVars>>

\* espeak_thread draining the queue before it exits
espeak_thread_L218_Drain ==
    /\ pc[Runner] = "L218"
    /\ SetQueue(queue_clear(TheQueue))
    /\ Goto(Runner, "done")
    /\ UNCHANGED <<queue_guard, stop_guard, runner_must_stop, should_run,
                   cmd, current, error, arg, nentries, nstops, histVars,
                   fateVars>>

\* queue.c 218-219: espeak_Terminate, return
espeak_thread_L218 ==
    /\ pc[Runner] = "L218"
    /\ Goto(Runner, "done")
    /\ UNCHANGED <<queue_guard, stop_guard, runner_must_stop, should_run,
                   queueVars, cmd, current, error, arg, nentries, nstops,
                   histVars, fateVars>>

\* the rest of the program clears should_run to shut the runner down
Shutdown ==
    /\ should_run # 0
    /\ pc[Runner] # "done"
    /\ should_run' = 0
    /\ UNCHANGED <<pc, queue_guard, stop_guard, runner_must_stop, queueVars,
                   cmd, current, error, arg, nentries, nstops, histVars, fateVars>>

\* ---- specifications ----
ProducerStep(p) == queue_add_L46(p) \/ queue_add_L48(p) \/ queue_add_L58(p)

StopStep(s) ==
    \/ stop_runner_L141(s) \/ stop_runner_L142(s) \/ stop_runner_L143(s)
    \/ stop_runner_L145(s) \/ stop_runner_L146(s)
    \/ stop_runner_L146_woken(s) \/ stop_runner_L147(s)

RunnerLoop ==
    \/ espeak_thread_L188 \/ espeak_thread_L199 \/ espeak_thread_L200
    \/ espeak_thread_L201_woken \/ espeak_thread_L203
    \/ queue_process_entry_L98 \/ queue_process_entry_L102
    \/ queue_process_entry_L102_call \/ queue_process_entry_L129
    \/ queue_process_entry_L130 \/ espeak_thread_L205 \/ espeak_thread_L208
    \/ espeak_thread_L209 \/ espeak_thread_L210 \/ espeak_thread_L211
    \/ espeak_thread_L211_call \/ espeak_thread_L212 \/ espeak_thread_L213
    \/ espeak_thread_L214

Next ==
    \/ \E p \in OneProducer : Producer_Call(p)
    \/ \E p \in OneProducer : ProducerStep(p)
    \/ \E s \in StopCallers : StopRunner_Call(s)
    \/ \E s \in StopCallers : StopStep(s)
    \/ espeak_thread_L177(InitRates)
    \/ espeak_thread_L183(AudioResults)
    \/ RunnerLoop
    \/ espeak_thread_L218
    \/ \E s \in StopCallers : stop_runner_L146_spurious(s)
    \/ espeak_thread_L201_spurious
    \/ Shutdown

Spec == Init /\ [][Next]_vars

\* The runner stays running (both initialisations succeed, nobody clears
\* should_run), every thread that can take a step infinitely often takes
\* it, and every engine call returns.
RunnerLive ==
    \/ espeak_thread_L177(GoodRates)
    \/ espeak_thread_L183(GoodAudio)
    \/ RunnerLoop

NextLive ==
    \/ \E p \in OneProducer : Producer_Call(p)
    \/ \E p \in OneProducer : ProducerStep(p)
    \/ \E s \in StopCallers : StopRunner_Call(s)
    \/ \E s \in StopCallers : StopStep(s)
    \/ RunnerLive
    \/ \E s \in StopCallers : stop_runner_L146_spurious(s)
    \/ espeak_thread_L201_spurious

Fairness ==
    /\ SF_vars(RunnerLive)
    /\ \A s \in StopCallers : SF_vars(StopStep(s))
    /\ \A p \in OneProducer : SF_vars(ProducerStep(p))

SpecLive == Init /\ [][NextLive]_vars /\ Fairness

\* One producer, one stop requester and the runner, scheduled fairly: the
\* runner takes a step it can take infinitely often (it gets the mutexes it
\* asks for), the other threads finish the call they are in.  The runner
\* may fail to initialise and the program may clear should_run.
RunnerAll ==
    \/ espeak_thread_L177(InitRates)
    \/ espeak_thread_L183(AudioResults)
    \/ RunnerLoop
    \/ espeak_thread_L218

OneStopCaller == {"s1"}

NextSolo ==
    \/ \E p \in OneProducer : Producer_Call(p)
    \/ \E p \in OneProducer : ProducerStep(p)
    \/ \E s \in OneStopCaller : StopRunner_Call(s)
    \/ \E s \in OneStopCaller : StopStep(s)
    \/ RunnerAll
    \/ \E s \in OneStopCaller : stop_runner_L146_spurious(s)
    \/ espeak_thread_L201_spurious
    \/ Shutdown

FairnessAll ==
    /\ SF_vars(RunnerAll)
    /\ \A s \in OneStopCaller : WF_vars(StopStep(s))
    /\ \A p \in OneProducer : WF_vars(ProducerStep(p))

SpecFair == Init /\ [][NextSolo]_vars /\ FairnessAll

\* Several producer threads call queue_add concurrently; one thread
\* requests stops.

NextMulti ==
    \/ \E p \in Producers : Producer_Call(p)
    \/ \E p \in Producers : ProducerStep(p)
    \/ \E s \in OneStopCaller : StopRunner_Call(s)
    \/ \E s \in OneStopCaller : StopStep(s)
    \/ espeak_thread_L177(InitRates)
    \/ espeak_thread_L183(AudioResults)
    \/ RunnerLoop
    \/ espeak_thread_L218
    \/ \E s \in OneStopCaller : stop_runner_L146_spurious(s)
    \/ espeak_thread_L201_spurious
    \/ Shutdown

SpecMulti == Init /\ [][NextMulti]_vars

\* ---- vocabulary of the properties ----
\* the runner is inside queue_process_entry with an entry taken
DispatchPcs == {"L102", "L102_call", "L129", "L130"}
\* the entries linked into the queue and not yet released, oldest first
Pending == SelectSeq(added, LAMBDA e : e \notin freed)
IsPrefix(a, b) == Len(a) <= Len(b) /\ SubSeq(b, 1, Len(a)) = a
\* the runner has entered its serving loop and called pthread_cond_wait
ServingPcs == {"L201_wait", "L201_woken", "L203", "L98", "L102", "L102_call",
               "L129", "L130", "L205", "L208", "L209", "L210", "L211",
               "L211_call", "L212", "L213", "L214"}
\* a stop_runner call is between acquiring stop_guard and returning
InStopRunner == {"L142", "L143", "L145", "L146", "L146_wait", "L146_woken",
                 "L147"}

\* C1: the entry the runner is dispatching is always the oldest entry that
\* has been added and not yet removed: entries are dispatched in the order
\* queue_add linked them, never before an earlier one has left the head.
C1_FifoDispatch ==
    pc[Runner] \in DispatchPcs =>
        /\ Pending # <<>>
        /\ current = Head(Pending)
        /\ current = last
        /\ QueueSeq = Pending

\* two entries were added, no stop was requested, the first has been
\* dispatched and removed and the runner is dispatching the second
C1_Witness ==
    /\ pc[Runner] = "L102_call"
    /\ Len(added) = 2
    /\ added[1] \in freed
    /\ current = added[2]
    /\ nstops = 0

\* C3: once a stop_runner call has returned, every entry that had been
\* added before the call began has left the queue and been released, and
\* the runner is not dispatching any of them.
C3_StopCompleteness ==
    \A s \in StopCallers :
        pc[s] = "returned" =>
            \A i \in 1..snapLen[s] :
                /\ added[i] \in freed
                /\ added[i] \notin QueueSet
                /\ current # added[i]

\* C4 as stated: the runner's stop handling runs abort, clear, reset, signal
C4_AbortBeforeClear ==
    IsPrefix(stopSteps, <<"stop_speech", "queue_clear", "reset", "signal">>)

\* C4 (amended): the runner's stop handling runs, in this order, the queue
\* clear, the engine abort, the reset of runner_must_stop and the signal of
\* stop_acknowledged; each step finds the earlier ones done.
C4_ClearAbortResetSignal ==
    /\ IsPrefix(stopSteps, <<"queue_clear", "stop_speech", "reset", "signal">>)
    /\ pc[Runner] = "L211" => stopSteps = <<"queue_clear">> /\ last = NULL
    /\ pc[Runner] = "L212" =>
          stopSteps = <<"queue_clear", "stop_speech">> /\ runner_must_stop = 1
    /\ pc[Runner] = "L214" =>
          /\ stopSteps = <<"queue_clear", "stop_speech", "reset">>
          /\ runner_must_stop = 0
          /\ last = NULL

\* a stop handling has run to its signal, having cleared a non-empty queue
C4_Witness ==
    /\ stopSteps = <<"queue_clear", "stop_speech", "reset", "signal">>
    /\ freed # {}
    /\ pc[Runner] = "L200"

\* C5: a stop_runner call is past its wait (about to return, or returned)
\* only if, since it set runner_must_stop, the runner has cleared the queue,
\* called the engine abort and reset runner_must_stop.
C5_AckAfterFlush ==
    \A s \in StopCallers :
        pc[s] \in {"L147", "returned"} =>
            served[s] = {"queue_clear", "stop_speech", "reset"}

\* C6 as stated: inside any engine call (dispatch or abort) the runner does
\* not hold queue_guard
C6_NoGuardInEngine ==
    pc[Runner] \in {"L102_call", "L211_call"} => queue_guard # Runner

\* C6 (amended): inside the engine call of a dispatch (a setter or
\* speak_text) the runner does not hold queue_guard; the abort call
\* stop_speech is made with queue_guard and stop_guard held.
C6_NoGuardInDispatch ==
    /\ pc[Runner] \in {"L102", "L102_call", "L129"} => queue_guard # Runner
    /\ pc[Runner] \in {"L211", "L211_call"} =>
          queue_guard = Runner /\ stop_guard = Runner

\* the runner is inside a dispatch call while a producer holds queue_guard
C6_Witness ==
    /\ pc[Runner] = "L102_call"
    /\ queue_guard \in Producers

\* C7 as stated: every engine call of a dispatch begins in a state where
\* runner_must_stop is 0
C7_NoDispatchWhileStop ==
    pc[Runner] = "L102" /\ cmd[current] \in EngineCmds => runner_must_stop = 0

\* C7 (amended): the runner takes an entry for dispatch only in a state
\* where runner_must_stop is 0, and between the flag being set and being
\* reset at most one dispatch engine call begins (that of the entry taken
\* before the flag was set).
C7_NoNewEntryWhileStop ==
    /\ pc[Runner] = "L98" => runner_must_stop = 0
    /\ startedWhileStop <= 1
    /\ startedWhileStop = 1 => runner_must_stop = 1

\* the engine call of the entry taken before the stop request is running
\* while runner_must_stop is set
C7_Witness ==
    /\ pc[Runner] = "L102_call"
    /\ runner_must_stop = 1
    /\ startedWhileStop = 1

\* C8: queue_process_entry removes the head exactly when error is EE_OK;
\* otherwise the entry it dispatched is still the head when it returns, and
\* the entry the runner dispatches is always the head.
C8_RemoveOnlyOnOk ==
    /\ pc[Runner] \in DispatchPcs => current = last /\ current \notin freed
    /\ pc[Runner] = "L205" /\ error = EE_OK =>
          current \in freed /\ last # current
    /\ pc[Runner] = "L205" /\ error # EE_OK =>
          current \notin freed /\ last = current

\* a speak call returned an error and its entry is still the head
C8_Witness ==
    /\ pc[Runner] = "L205"
    /\ error = EE_INTERNAL_ERROR
    /\ cmd[current] = CMD_SPEAK_TEXT
    /\ last = current

\* C9: at most one caller is between acquiring stop_guard and returning
\* from stop_runner.
C9_StopSerialized ==
    Cardinality({s \in StopCallers : pc[s] \in InStopRunner}) <= 1

\* C2: with the runner serving, every stop_runner call eventually returns,
\* also when the calls of several threads overlap.
C2_AllStopsReturn ==
    \A s \in StopCallers :
        (pc[s] = "L141" /\ pc[Runner] \in ServingPcs) ~> (pc[s] = "returned")

\* C10: a stop_runner call begun with the queue empty and no other stop
\* request in progress returns with the queue empty (or another stop
\* request begins meanwhile), wherever the started runner is.
C10_StopOnEmptyReturns ==
    \A s \in StopCallers :
        (/\ pc[s] = "L141"
         /\ \A t \in StopCallers \ {s} : pc[t] \in {"idle", "returned"}
         /\ last = NULL
         /\ \A p \in Producers : pc[p] = "idle")
        ~> (\/ pc[s] = "returned" /\ last = NULL
            \/ \E t \in StopCallers \ {s} : pc[t] \notin {"idle", "returned"}
            \/ \E p \in Producers : pc[p] # "idle")

\* C11: the runner is never left blocked on runner_awake with an entry in
\* the queue: whenever it waits and the queue is not empty, a thread is
\* about to signal runner_awake.
C11_NoWaitWithEntries ==
    (pc[Runner] = "L201_wait" /\ last # NULL) =>
        \E t \in Producers \cup StopCallers : pc[t] \in {"L58", "L145"}

\* C12: with several producers adding concurrently no entry is lost or
\* duplicated: every added entry is either in the queue exactly once, or
\* removed after a successful dispatch, or discarded by a stop; once the
\* queue is drained the removed entries number the added ones minus the
\* discarded ones.
C12_NoLossNoDuplicate ==
    /\ Cardinality(Range(added)) = Len(added)
    /\ Cardinality(QueueSet) = Len(QueueSeq)
    /\ QueueSet \cap freed = {}
    /\ QueueSet \cup freed = Range(added)
    /\ discarded \subseteq freed
    /\ refreed = {}
    /\ last = NULL =>
          Cardinality(freed \ discarded) =
              Len(added) - Cardinality(discarded)
    /\ (last = NULL) = (first = NULL)

\* the two producers added concurrently (the entry created second was
\* linked first); the queue is drained, one entry removed after its
\* dispatch and one discarded by a stop
C12_Witness ==
    /\ Len(added) = 2
    /\ added[1] = 2
    /\ last = NULL
    /\ discarded # {}
    /\ freed \ discarded # {}

\* C13: while the runner is inside the speak call of a dispatch it does not
\* hold queue_guard, and whoever holds it is in a critical section that
\* ends without waiting for the runner: queue_add does not wait for the
\* dispatch to finish.
C13_AddDuringDispatch ==
    (pc[Runner] = "L102_call" /\ cmd[current] = CMD_SPEAK_TEXT) =>
        /\ queue_guard # Runner
        /\ \A t \in Producers \cup StopCallers :
              queue_guard = t => pc[t] \in {"L48", "L143"}
        /\ \A p \in Producers :
              pc[p] = "L46" /\ queue_guard = NOBODY => ENABLED queue_add_L46(p)

\* a producer is inside the critical section of queue_add, holding
\* queue_guard, while the speak call of the head entry is running
C13_Witness ==
    /\ pc[Runner] = "L102_call"
    /\ cmd[current] = CMD_SPEAK_TEXT
    /\ last = current
    /\ \E p \in Producers :
          pc[p] = "L48" /\ queue_guard = p /\ arg[p] # current

\* C14: no entry is released twice, no released entry is reachable from the
\* queue, and the entry the runner is dispatching is not released.
C14_ReleasedOnce ==
    /\ refreed = {}
    /\ QueueSet \cap freed = {}
    /\ last \notin freed
    /\ first \notin freed
    /\ pc[Runner] \in DispatchPcs => current \notin freed
    /\ freed \subseteq Range(added)

\* one entry was released by queue_remove after its dispatch, another by
\* the queue_clear of a stop, and none twice
C14_Witness ==
    /\ discarded # {}
    /\ freed \ discarded # {}
    /\ refreed = {}
    /\ pc[Runner] = "L211"

\* the positions of the runner before and after its serving loop
NotServingPcs == {"L177", "L183", "L188", "L199", "L200", "L218", "done"}

\* C15: after a failed espeak_Initialize or init_audio the runner is never
\* in its serving loop (it does not wait on runner_awake and takes no entry
\* for dispatch), finds should_run cleared at the loop test, and eventually
\* has terminated the engine and exited.
C15_InitFailureSkipsLoop ==
    /\ [](initFailed =>
            /\ pc[Runner] \in NotServingPcs
            /\ should_run = 0
            /\ current = NULL
            /\ freed = {})
    /\ (initFailed ~> pc[Runner] = "done")

\* the runner has exited after a failed initialisation while an entry was
\* queued: the entry is still in the queue, never dispatched
C15_Witness ==
    /\ initFailed
    /\ pc[Runner] = "done"
    /\ last # NULL

\* the runner is at a test of should_run, or past its loop
LoopTestPcs == {"L200", "L203", "L208"}
ExitPcs == {"L218", "done"}

\* C16: once the runner has found should_run cleared with no stop request
\* pending it takes no entry for dispatch, reaches espeak_Terminate and
\* exits; on this way and afterwards it neither dispatches nor releases an
\* entry, and the queue it leaves is the queue it found.
C16_ShutdownLeavesQueue ==
    /\ [][(/\ pc[Runner] \in LoopTestPcs \cup ExitPcs
           /\ should_run = 0
           /\ runner_must_stop = 0)
          => (/\ pc'[Runner] \in LoopTestPcs \cup ExitPcs
              /\ last' = last
              /\ first' = first
              /\ next' = next
              /\ freed' = freed
              /\ current' = NULL)]_vars
    /\ [](pc[Runner] \in ExitPcs => should_run = 0 /\ current = NULL)
    /\ ((pc[Runner] \in LoopTestPcs /\ should_run = 0 /\ runner_must_stop = 0)
           ~> pc[Runner] = "done")

\* the runner served an entry, was shut down and has exited with another
\* entry still in the queue, not released
C16_Witness ==
    /\ pc[Runner] = "done"
    /\ ~initFailed
    /\ discarded = {}
    /\ freed # {}
    /\ last # NULL
    /\ last \notin freed

\* the runner reads or writes first, last or runner_must_stop, or unlocks
\* queue_guard, in its step from these positions
RunnerGuardedPcs == {"L200", "L203", "L98", "L130", "L208", "L210", "L212"}
\* the runner locks queue_guard in its step from these positions
RunnerLockingPcs == {"L199", "L201_woken", "L129", "L205"}

\* C17: every step that reads or writes first, last or runner_must_stop is
\* taken by a thread that holds queue_guard; the runner holds queue_guard
\* wherever it unlocks it and does not hold it wherever it locks it.
C17_LockDiscipline ==
    /\ [](pc[Runner] \in RunnerGuardedPcs => queue_guard = Runner)
    /\ [](pc[Runner] \in RunnerLockingPcs => queue_guard # Runner)
    /\ [](\A p \in Producers : pc[p] = "L48" => queue_guard = p)
    /\ [](\A s \in StopCallers : pc[s] = "L143" => queue_guard = s)
    /\ [][(\/ first' # first
           \/ last' # last
           \/ next' # next
           \/ freed' # freed
           \/ runner_must_stop' # runner_must_stop)
          => (/\ queue_guard # NOBODY
              /\ pc'[queue_guard] # pc[queue_guard])]_vars

\* the runner holds queue_guard to remove the entry it dispatched while a
\* producer is waiting for queue_guard in queue_add
C17_Witness ==
    /\ pc[Runner] = "L130"
    /\ queue_guard = Runner
    /\ error = EE_OK
    /\ \E p \in Producers : pc[p] = "L46"

\* C18: the runner never holds queue_guard while blocked on stop_guard at
\* the same time as a stop_runner caller holds stop_guard while blocked on
\* queue_guard.
C18_NoLockOrderDeadlock ==
    ~(/\ pc[Runner] = "L209"
      /\ queue_guard = Runner
      /\ \E s \in StopCallers : pc[s] = "L142" /\ stop_guard = s)

\* C19: when queue_process_entry returns from a CMD_SET_VOICE entry, the
\* entry has been removed from the queue.
C19_SetVoiceRemoved ==
    (pc[Runner] = "L205" /\ current # NULL /\ cmd[current] = CMD_SET_VOICE)
        => (current \in freed /\ last # current)

\* C20: an entry added while runner_must_stop is set is never taken for
\* dispatch and has been discarded by the queue clear once the flag is
\* reset; a queue clear discards exactly the entries in the queue at that
\* moment, so an entry added after the reset is untouched by it.
C20_AddedDuringStopDiscarded ==
    /\ [](pc[Runner] \in DispatchPcs => current \notin addedWhileStop)
    /\ [](runner_must_stop = 0 => addedWhileStop \subseteq discarded)
    /\ [](pc[Runner] \in {"L211", "L211_call", "L212"} =>
            addedWhileStop \subseteq discarded)
    /\ [][discarded' # discarded
          => (/\ pc[Runner] = "L210"
              /\ runner_must_stop = 1
              /\ discarded' = discarded \cup QueueSet
              /\ added' = added)]_vars
    /\ [][(runner_must_stop = 0 /\ Len(added') > Len(added))
          => (/\ added'[Len(added')] \notin discarded'
              /\ added'[Len(added')] \notin addedWhileStop')]_vars

\* one entry was added during a stop request and discarded by its clear;
\* another was added after the reset and is in the queue
C20_Witness ==
    /\ runner_must_stop = 0
    /\ \E e \in addedWhileStop : e \in discarded
    /\ \E e \in QueueSet : e \notin addedWhileStop
====
